---- MODULE Spec2Model ----
(***************************************************************************)
(* Certificate generator: name placement and layout resolution, and the    *)
(* batch run over the participants file.                                   *)
(*                                                                         *)
(* Python values read from the JSON configuration are modelled as records  *)
(* [t, n, d, s]: t is the Python type, n/d an exact rational (ints have    *)
(* d = 1), s the characters of a str.  Texts are sequences of one-         *)
(* character strings, so that stripping, counting and parsing are done the *)
(* way the code does them.                                                 *)
(***************************************************************************)
EXTENDS Integers, Sequences, FiniteSets, TLC

VARIABLES
    pc,                 \* which program is running and where it stands
    content_config,     \* generator.content_config (module global, read only)
    files,              \* paths for which os.path.exists is true
    disk,               \* what each written artifact holds: the last pdf.output to its path
    unwritable,         \* paths that pdf.output cannot write (OSError)
    first_name,         \* FirstName of the row being rendered
    last_name,          \* LastName of the row being rendered
    cert,               \* what generate_certificate did (locals, canvas calls, result)
    debug_mode,         \* the debug_mode document handed to resolve_debug_mode
    debug_result,       \* what resolve_debug_mode returned or raised
    email_config,       \* generator.email_config (module global, read only)
    roster,             \* the rows of the participants CSV, in file order
    position,           \* process_csv: the row of the current iteration, from 1
    should_send_email,  \* process_csv: whether certificates are mailed
    events,             \* everything the run did that is visible outside, in order
    rendered,           \* process_csv: what each generate_certificate call that returned drew
    error,              \* the exception that left process_csv or __main__, "" if none
    config_files,       \* load_config: the documents of the files named, in order
    loaded,             \* load_config: the dictionary returned
    preview,            \* ConfigGUI.update_preview: the style the preview was drawn with
    debug_file,         \* config/debug_mode.json: missing, unreadable, malformed, or its JSON kind
    debug_var,          \* ConfigGUI.debug_var: TRUE is Test mode (do not send emails)
    preview_after_id,   \* ConfigGUI.preview_after_id: 0 is None, else the id root.after returned
    timers,             \* the preview timers Tk holds that were neither fired nor cancelled
    next_timer,         \* the id the next root.after call returns
    preview_runs        \* how often update_preview has run

\* the state of one rendering and of the debug-mode resolution
render_vars == <<pc, content_config, files, disk, unwritable, first_name, last_name, cert,
                 debug_mode, debug_result>>

\* the state of the batch driver
batch_vars == <<email_config, roster, position, should_send_email, events, rendered, error>>

\* the state of the configuration window
timer_vars == <<preview_after_id, timers, next_timer, preview_runs>>
gui_vars == <<preview, debug_file, debug_var, timer_vars>>

\* the state of the other programs
aux_vars == <<config_files, loaded, gui_vars>>

vars == <<render_vars, batch_vars, aux_vars>>

----------------------------------------------------------------------------
(* Bounds of the model *)

\* longest given name drawn, in characters
MaxGiven == 1
\* longest short family name drawn, in characters
MaxFamily == 3

----------------------------------------------------------------------------
(* Exact rational arithmetic for Python floats *)

RECURSIVE Gcd(_, _)
Gcd(a, b) == IF b = 0 THEN a ELSE Gcd(b, a % b)

Abs(i) == IF i < 0 THEN -i ELSE i

\* the rational n/d in lowest terms with a positive denominator
Rat(n, d) ==
    LET g == Gcd(Abs(n), Abs(d))
        sgn == IF d < 0 THEN -1 ELSE 1
    IN  [n |-> sgn * (n \div g), d |-> sgn * (d \div g)]

RInt(i) == [n |-> i, d |-> 1]
RMul(a, b) == Rat(a.n * b.n, a.d * b.d)
RSub(a, b) == Rat(a.n * b.d - b.n * a.d, a.d * b.d)
RLess(a, b) == a.n * b.d < b.n * a.d
RLeq(a, b) == a.n * b.d <= b.n * a.d
RMax(a, b) == IF RLess(a, b) THEN b ELSE a
RPositive(a) == a.n > 0
\* int(x) for a float x: truncation toward zero
RTrunc(a) == IF a.n >= 0 THEN a.n \div a.d ELSE -((-a.n) \div a.d)

----------------------------------------------------------------------------
(* Python values *)

Absent == [t |-> "absent", n |-> 0, d |-> 1, s |-> <<>>]
PyNone == [t |-> "none", n |-> 0, d |-> 1, s |-> <<>>]
PyInt(i) == [t |-> "int", n |-> i, d |-> 1, s |-> <<>>]
PyFloat(n, d) == [t |-> "float", n |-> Rat(n, d).n, d |-> Rat(n, d).d, s |-> <<>>]
PyBool(b) == [t |-> "bool", n |-> IF b THEN 1 ELSE 0, d |-> 1, s |-> <<>>]
PyStr(s) == [t |-> "str", n |-> 0, d |-> 1, s |-> s]
\* float("inf"): what json.load returns for a number too large for a float,
\* such as 1e400, and for the literal Infinity
PyInf == [t |-> "inf", n |-> 1, d |-> 0, s |-> <<>>]

\* a float result of the code as a Python value
PyOfRat(r) == [t |-> "float", n |-> r.n, d |-> r.d, s |-> <<>>]
RatOf(v) == [n |-> v.n, d |-> v.d]

\* dict.get(key, default): a key that is present with value None is present
Get(config, key, default) ==
    IF config[key].t = "absent" THEN default ELSE config[key]

----------------------------------------------------------------------------
(* Characters and strings *)

Whitespace == {" ", "\t", "\n", "\r"}
Digits == <<"0", "1", "2", "3", "4", "5", "6", "7", "8", "9">>
IsDigit(c) == \E i \in 1..10 : Digits[i] = c
DigitVal(c) == (CHOOSE i \in 1..10 : Digits[i] = c) - 1

RECURSIVE LStrip(_)
LStrip(s) == IF s /= <<>> /\ Head(s) \in Whitespace THEN LStrip(Tail(s)) ELSE s

RECURSIVE RStrip(_)
RStrip(s) ==
    IF s /= <<>> /\ s[Len(s)] \in Whitespace
    THEN RStrip(SubSeq(s, 1, Len(s) - 1))
    ELSE s

\* str.strip()
Strip(s) == RStrip(LStrip(s))

Upper == [c \in {"a", "b", "e", "f", "l", "m", "n", "o", "r", "s", "t", "u", "y"} |->
    CASE c = "a" -> "A" [] c = "b" -> "B" [] c = "e" -> "E" [] c = "f" -> "F"
      [] c = "l" -> "L" [] c = "m" -> "M" [] c = "n" -> "N" [] c = "o" -> "O"
      [] c = "r" -> "R" [] c = "s" -> "S" [] c = "t" -> "T" [] c = "u" -> "U"
      [] c = "y" -> "Y"]

LowerChar(c) ==
    IF \E l \in DOMAIN Upper : Upper[l] = c
    THEN CHOOSE l \in DOMAIN Upper : Upper[l] = c
    ELSE c

UpperChar(c) == IF c \in DOMAIN Upper THEN Upper[c] ELSE c

\* str.lower() / str.upper()
Lower(s) == [i \in 1..Len(s) |-> LowerChar(s[i])]
ToUpper(s) == [i \in 1..Len(s) |-> UpperChar(s[i])]

\* n copies of the character c
Rep(c, n) == [i \in 1..n |-> c]

RECURSIVE DigitsValue(_)
DigitsValue(s) ==
    IF s = <<>> THEN 0
    ELSE 10 * DigitsValue(SubSeq(s, 1, Len(s) - 1)) + DigitVal(s[Len(s)])

RECURSIVE Pow10(_)
Pow10(k) == IF k = 0 THEN 1 ELSE 10 * Pow10(k - 1)

AllDigits(s) == \A i \in 1..Len(s) : IsDigit(s[i])

HasSign(s) == s /= <<>> /\ Head(s) \in {"+", "-"}
Unsigned(s) == IF HasSign(s) THEN Tail(s) ELSE s
SignOf(s) == IF s /= <<>> /\ Head(s) = "-" THEN -1 ELSE 1

\* position of the first "." of s, or 0
DotAt(s) ==
    IF \E i \in 1..Len(s) : s[i] = "."
    THEN CHOOSE i \in 1..Len(s) : s[i] = "." /\ \A j \in 1..(i - 1) : s[j] /= "."
    ELSE 0

----------------------------------------------------------------------------
(* Python's numeric conversions.  PyNone stands for a raised TypeError or  *)
(* ValueError (the callers below only ever catch exactly these two);       *)
(* Overflow stands for a raised OverflowError, which no caller catches.    *)
(* Literals with an exponent, "inf", "nan" and digit-group underscores are *)
(* outside the strings the model draws.                                    *)

\* float(str)
FloatOfStr(s) ==
    LET u == Unsigned(Strip(s))
        dot == DotAt(u)
        ip == IF dot = 0 THEN u ELSE SubSeq(u, 1, dot - 1)
        fp == IF dot = 0 THEN <<>> ELSE SubSeq(u, dot + 1, Len(u))
    IN  IF AllDigits(ip) /\ AllDigits(fp) /\ (ip /= <<>> \/ fp /= <<>>)
        THEN PyOfRat(Rat(SignOf(Strip(s)) * (DigitsValue(ip) * Pow10(Len(fp)) + DigitsValue(fp)),
                         Pow10(Len(fp))))
        ELSE PyNone

\* int(str)
IntOfStr(s) ==
    LET u == Unsigned(Strip(s))
    IN  IF u /= <<>> /\ AllDigits(u)
        THEN PyInt(SignOf(Strip(s)) * DigitsValue(u))
        ELSE PyNone

Overflow == [t |-> "OverflowError", n |-> 0, d |-> 1, s |-> <<>>]

\* float(value)
PyFloatOf(value) ==
    CASE value.t \in {"int", "float", "bool"} -> PyOfRat(RatOf(value))
      [] value.t = "inf" -> value
      [] value.t = "str" -> FloatOfStr(value.s)
      [] OTHER -> PyNone

\* int(value)
PyIntOf(value) ==
    CASE value.t \in {"int", "bool"} -> PyInt(value.n)
      [] value.t = "float" -> PyInt(RTrunc(RatOf(value)))
      [] value.t = "inf" -> Overflow
      [] value.t = "str" -> IntOfStr(value.s)
      [] OTHER -> PyNone

_safe_int(value) == PyIntOf(value)

_safe_float(value) == PyFloatOf(value)

\* bool(value) for the values the code tests for truth
Truthy(value) ==
    CASE value.t \in {"absent", "none"} -> FALSE
      [] value.t = "str" -> value.s /= <<>>
      [] OTHER -> value.n /= 0

----------------------------------------------------------------------------
(* generator.py: resolve_debug_mode *)

RECURSIVE NatToStr(_)
NatToStr(i) == IF i < 10 THEN <<Digits[i + 1]>> ELSE NatToStr(i \div 10) \o <<Digits[(i % 10) + 1]>>

\* str(value) for the values a debug_mode document is drawn from
PyStrOf(value) ==
    CASE value.t = "str" -> value.s
      [] value.t = "none" -> <<"N", "o", "n", "e">>
      [] value.t = "bool" -> IF value.n = 1 THEN <<"T", "r", "u", "e">>
                             ELSE <<"F", "a", "l", "s", "e">>
      [] value.t = "int" -> IF value.n < 0 THEN <<"-">> \o NatToStr(-value.n)
                            ELSE NatToStr(value.n)

FullWords == {<<"f", "u", "l", "l">>, <<"f">>, <<"t", "r", "u", "e">>}
TestWords == {<<"t", "e", "s", "t">>, <<"t">>, <<"f", "a", "l", "s", "e">>}

NoDebugResult == [status |-> "none", label |-> "", send |-> FALSE, message |-> <<>>]

\* faulty variant: an unsupported value falls back to Test mode instead of failing
resolve_debug_mode_default_test(debug_mode_config) ==
    LET normalized == Lower(Strip(PyStrOf(Get(debug_mode_config, "debug_mode", PyNone))))
    IN  IF normalized \in FullWords
        THEN [status |-> "ok", label |-> "Full", send |-> TRUE, message |-> <<>>]
        ELSE [status |-> "ok", label |-> "Test", send |-> FALSE, message |-> <<>>]

\* status "ok": returned (label, send); status "ValueError": raised, message
\* holding the raw value as the f-string formats it
resolve_debug_mode(debug_mode_config) ==
    LET raw_value == Get(debug_mode_config, "debug_mode", PyNone)
        normalized == Lower(Strip(PyStrOf(raw_value)))
    IN  CASE normalized \in FullWords ->
                [status |-> "ok", label |-> "Full", send |-> TRUE, message |-> <<>>]
          [] normalized \in TestWords ->
                [status |-> "ok", label |-> "Test", send |-> FALSE, message |-> <<>>]
          [] OTHER ->
                [status |-> "ValueError", label |-> "", send |-> FALSE,
                 message |-> PyStrOf(raw_value)]

----------------------------------------------------------------------------
(* The canvas backend (FPDF, unit mm, A4) *)

\* points to millimetres: 25.4 / 72
_pt_to_mm(points) == RMul(points, Rat(254, 720))

\* page width and height for an orientation
PageSize(orientation) ==
    IF orientation = <<"L">> THEN [w |-> RInt(297), h |-> RInt(210)]
    ELSE [w |-> RInt(210), h |-> RInt(297)]

\* FPDF.set_font: the current font size in user units (mm)
set_font(pdf, size_pt) == [pdf EXCEPT !.font_size = _pt_to_mm(size_pt)]

\* FPDF.get_string_width: every glyph advances half an em of the current font
get_string_width(pdf, text) == RMul(RInt(Len(text)), RMul(pdf.font_size, Rat(1, 2)))

----------------------------------------------------------------------------
(* generator.py: layout and style resolution *)

\* faulty variant: the text starts at the middle of the page
calculate_text_center_page(pdf, text, page_width) == RMul(page_width, Rat(1, 2))

\* faulty variant: the text starts at the left edge
calculate_text_center_left(pdf, text, page_width) == RInt(0)

calculate_text_center(pdf, text, page_width) ==
    LET text_width == get_string_width(pdf, text)
        x_position == RMul(RSub(page_width, text_width), Rat(1, 2))
    IN  x_position

\* faulty variant: an unparseable text_y yields no baseline at all (0)
resolve_text_baseline_zero(pdf, config) ==
    LET raw_baseline == Get(config, "text_y", PyNone)
    IN  IF raw_baseline.t /= "none" /\ PyFloatOf(raw_baseline).t /= "none"
        THEN RatOf(PyFloatOf(raw_baseline))
        ELSE RInt(0)

\* faulty variant: the fallback remembers the baseline of the call before
resolve_text_baseline_stateful(pdf, config) ==
    LET raw_baseline == Get(config, "text_y", PyNone)
    IN  IF raw_baseline.t /= "none" /\ PyFloatOf(raw_baseline).t /= "none"
        THEN RatOf(PyFloatOf(raw_baseline))
        ELSE RSub(pdf.font_size, cert.baseline_y)

resolve_text_baseline(pdf, config) ==
    LET raw_baseline == Get(config, "text_y", PyNone)
    IN  IF raw_baseline.t /= "none" /\ PyFloatOf(raw_baseline).t /= "none"
        THEN RatOf(PyFloatOf(raw_baseline))
        ELSE pdf.font_size

_count_name_characters(full_name) ==
    Cardinality({i \in 1..Len(full_name) : full_name[i] \notin Whitespace})

\* threshold used when the configuration omits split_name_threshold
DefaultSplitThreshold == 24

\* faulty variant: compares with >= instead of >
should_split_full_name_geq(full_name, config) ==
    LET threshold == _safe_int(Get(config, "split_name_threshold", PyInt(DefaultSplitThreshold)))
    IN  IF threshold.t = "none" THEN FALSE
        ELSE _count_name_characters(full_name) >= threshold.n

\* the exception that leaves should_split_full_name, "" if it returns
should_split_full_name_raised(full_name, config) ==
    IF _safe_int(Get(config, "split_name_threshold", PyInt(DefaultSplitThreshold))) = Overflow
    THEN "OverflowError" ELSE ""

\* the value returned when the call returns
should_split_full_name(full_name, config) ==
    LET threshold_raw == Get(config, "split_name_threshold", PyInt(DefaultSplitThreshold))
        threshold == _safe_int(threshold_raw)
    IN  IF threshold.t = "none" THEN FALSE
        ELSE _count_name_characters(full_name) > threshold.n

\* faulty variant: the gap is the full font height
resolve_split_line_gap_full(pdf, config) ==
    LET gap == _safe_float(Get(config, "split_name_line_gap", PyNone))
    IN  IF gap.t /= "none" THEN RatOf(gap) ELSE pdf.font_size

resolve_split_line_gap(pdf, config) ==
    LET gap_raw == Get(config, "split_name_line_gap", PyNone)
        gap == _safe_float(gap_raw)
    IN  IF gap.t /= "none" THEN RatOf(gap)
        ELSE RMul(pdf.font_size, Rat(85, 100))

\* faulty variant: an invalid font override also discards the baseline override
resolve_split_style_coupled(base_font_size, baseline_override, config) ==
    LET override_font == _safe_float(Get(config, "split_name_font_size", PyNone))
        override_baseline == _safe_float(Get(config, "split_name_text_y", PyNone))
    IN  IF override_font.t = "none"
        THEN [font_size |-> base_font_size, baseline |-> baseline_override]
        ELSE [font_size |-> override_font,
              baseline |-> IF override_baseline.t = "none" THEN baseline_override
                           ELSE override_baseline]

resolve_split_style(base_font_size, baseline_override, config) ==
    LET raw_font_size == Get(config, "split_name_font_size", PyNone)
        override_font == _safe_float(raw_font_size)
        font_size == IF raw_font_size.t /= "none" /\ override_font.t /= "none"
                     THEN override_font ELSE base_font_size
        raw_baseline == Get(config, "split_name_text_y", PyNone)
        override_baseline == _safe_float(raw_baseline)
        baseline == IF raw_baseline.t /= "none" /\ override_baseline.t /= "none"
                    THEN override_baseline ELSE baseline_override
    IN  [font_size |-> font_size, baseline |-> baseline]

\* faulty variant: the long-name override applies from the threshold itself on
resolve_name_style_geq(full_name, config) ==
    LET base_font_size == _safe_float(Get(config, "font_size", PyNone))
        threshold == _safe_int(Get(config, "long_name_threshold", PyNone))
        use_alternate == threshold.t /= "none" /\ _count_name_characters(full_name) >= threshold.n
        alt == _safe_float(Get(config, "long_name_font_size", PyNone))
    IN  IF base_font_size.t = "none"
        THEN [raised |-> "ValueError", font_size |-> PyNone, text_y |-> PyNone]
        ELSE IF use_alternate
        THEN [raised |-> "", font_size |-> IF alt.t = "none" THEN base_font_size ELSE alt,
              text_y |-> Get(config, "long_name_text_y", Get(config, "text_y", PyNone))]
        ELSE [raised |-> "", font_size |-> base_font_size, text_y |-> Get(config, "text_y", PyNone)]

\* faulty variant: an invalid font_size falls back to 12 pt instead of raising
resolve_name_style_default_size(full_name, config) ==
    LET base_font_size == _safe_float(Get(config, "font_size", PyNone))
        threshold == _safe_int(Get(config, "long_name_threshold", PyNone))
        use_alternate == threshold.t /= "none" /\ _count_name_characters(full_name) > threshold.n
        alt == _safe_float(Get(config, "long_name_font_size", PyNone))
        base == IF base_font_size.t = "none" THEN PyFloat(12, 1) ELSE base_font_size
    IN  IF use_alternate
        THEN [raised |-> "", font_size |-> IF alt.t = "none" THEN base ELSE alt,
              text_y |-> Get(config, "long_name_text_y", Get(config, "text_y", PyNone))]
        ELSE [raised |-> "", font_size |-> base, text_y |-> Get(config, "text_y", PyNone)]

resolve_name_style(full_name, config) ==
    LET base_font_size == _safe_float(Get(config, "font_size", PyNone))
        threshold_raw == Get(config, "long_name_threshold", PyNone)
        threshold == _safe_int(threshold_raw)
        use_alternate == threshold.t /= "none" /\ _count_name_characters(full_name) > threshold.n
        alt_font_size == _safe_float(Get(config, "long_name_font_size", PyNone))
        text_y == Get(config, "long_name_text_y", Get(config, "text_y", PyNone))
    IN  IF base_font_size.t = "none"
        THEN [raised |-> "ValueError", font_size |-> PyNone, text_y |-> PyNone]
        ELSE IF threshold = Overflow
        THEN [raised |-> "OverflowError", font_size |-> PyNone, text_y |-> PyNone]
        ELSE IF use_alternate
        THEN [raised |-> "",
              font_size |-> IF alt_font_size.t = "none" THEN base_font_size ELSE alt_font_size,
              text_y |-> text_y]
        ELSE [raised |-> "", font_size |-> base_font_size, text_y |-> Get(config, "text_y", PyNone)]

HexLower == <<"0", "1", "2", "3", "4", "5", "6", "7", "8", "9", "a", "b", "c", "d", "e", "f">>
HexUpper == <<"0", "1", "2", "3", "4", "5", "6", "7", "8", "9", "A", "B", "C", "D", "E", "F">>
IsHex(c) == \E i \in 1..16 : HexLower[i] = c \/ HexUpper[i] = c
HexVal(c) == (CHOOSE i \in 1..16 : HexLower[i] = c \/ HexUpper[i] = c) - 1

NoHex == [ok |-> FALSE, v |-> 0]

\* int(pair, 16) for a two-character slice; ok = FALSE stands for ValueError.
\* int() also accepts a sign before, or a blank beside, a single digit.
HexPair(a, b) ==
    CASE IsHex(a) /\ IsHex(b) -> [ok |-> TRUE, v |-> 16 * HexVal(a) + HexVal(b)]
      [] a \in ({"+"} \cup Whitespace) /\ IsHex(b) -> [ok |-> TRUE, v |-> HexVal(b)]
      [] a = "-" /\ IsHex(b) -> [ok |-> TRUE, v |-> -HexVal(b)]
      [] IsHex(a) /\ b \in Whitespace -> [ok |-> TRUE, v |-> HexVal(a)]
      [] OTHER -> NoHex

NoColor == [ok |-> FALSE, r |-> 0, g |-> 0, b |-> 0]

\* colour codes are drawn from str, None and the missing key
parse_hex_color(color_code) ==
    IF ~Truthy(color_code) THEN NoColor
    ELSE
    LET stripped == Strip(color_code.s)
        nohash == IF stripped /= <<>> /\ Head(stripped) = "#" THEN Tail(stripped) ELSE stripped
        value == IF Len(nohash) = 3
                 THEN <<nohash[1], nohash[1], nohash[2], nohash[2], nohash[3], nohash[3]>>
                 ELSE nohash
    IN  IF Len(value) /= 6 THEN NoColor
        ELSE LET r == HexPair(value[1], value[2])
                 g == HexPair(value[3], value[4])
                 b == HexPair(value[5], value[6])
             IN  IF r.ok /\ g.ok /\ b.ok
                 THEN [ok |-> TRUE, r |-> r.v, g |-> g.v, b |-> b.v]
                 ELSE NoColor

\* FPDF starts with black text; set_text_color is called only for a parsed colour
apply_text_color(pdf, color_code) ==
    LET rgb == parse_hex_color(color_code)
    IN  IF rgb.ok THEN [pdf EXCEPT !.text_color = <<rgb.r, rgb.g, rgb.b>>] ELSE pdf

----------------------------------------------------------------------------
(* generator.py: generate_certificate *)

CertificatesDir == <<".", "/", "c", "e", "r", "t", "i", "f", "i", "c", "a", "t", "e", "s", "/">>
PdfSuffix == <<".", "p", "d", "f">>

NewPdf(orientation) ==
    [w |-> PageSize(orientation).w, h |-> PageSize(orientation).h,
     font_size |-> RInt(0), text_color |-> <<0, 0, 0>>]

\* the record of one call before anything happened
NoCert ==
    [status |-> "none", page_width |-> RInt(0), image_painted |-> FALSE, font_added |-> FALSE,
     full_name |-> <<>>, first_line |-> <<>>, second_line |-> <<>>,
     split_candidate |-> FALSE, use_split |-> FALSE,
     name_style |-> [raised |-> "", font_size |-> PyNone, text_y |-> PyNone],
     font_size_pt |-> PyNone, text_y_override |-> PyNone,
     pdf_font_size |-> RInt(0), text_color |-> <<0, 0, 0>>,
     baseline_y |-> RInt(0), gap |-> RInt(0), texts |-> <<>>, filename |-> <<>>]

\* the orientation string handed to FPDF
Orientation == ToUpper(Get(content_config, "orientation", PyStr(<<"L">>)).s)

\* faulty variant: the split decision ignores empty name parts
use_split_candidate_only(full_name, first_line, second_line) ==
    should_split_full_name(full_name, content_config)

\* the split decision of generate_certificate
use_split_of(full_name, first_line, second_line) ==
    should_split_full_name(full_name, content_config)
    /\ first_line /= <<>>
    /\ second_line /= <<>>

\* lines 267-283: the texts drawn and the artifact written
draw_name(name, surname, split_candidate, use_split, style, final, pdf, baseline_y, gap) ==
    LET full_name == name \o <<" ">> \o surname
        first_line == Strip(name)
        second_line == Strip(surname)
        first_line_y == RSub(baseline_y, gap)
        split_texts ==
            (IF first_line /= <<>>
             THEN <<[x |-> calculate_text_center(pdf, first_line, pdf.w),
                     y |-> first_line_y, txt |-> first_line]>>
             ELSE <<>>)
            \o <<[x |-> calculate_text_center(pdf, second_line, pdf.w),
                  y |-> baseline_y, txt |-> second_line]>>
        single_text == <<[x |-> calculate_text_center(pdf, full_name, pdf.w),
                          y |-> baseline_y, txt |-> full_name]>>
        filename == CertificatesDir \o name \o <<"_">> \o surname \o PdfSuffix
    IN  [NoCert EXCEPT !.status = IF filename \in unwritable THEN "OSError" ELSE "ok",
                       !.page_width = pdf.w,
                       !.image_painted = TRUE, !.font_added = TRUE,
                       !.full_name = full_name, !.first_line = first_line,
                       !.second_line = second_line,
                       !.split_candidate = split_candidate, !.use_split = use_split,
                       !.name_style = style,
                       !.font_size_pt = final.font_size,
                       !.text_y_override = final.baseline,
                       !.pdf_font_size = pdf.font_size,
                       !.text_color = pdf.text_color,
                       !.baseline_y = baseline_y,
                       !.gap = IF use_split THEN gap ELSE RInt(0),
                       !.texts = IF use_split THEN split_texts ELSE single_text,
                       !.filename = filename]

\* lines 265-268: the baseline and, for a split name, the gap, read from the
\* canvas after set_font
place_name(name, surname, split_candidate, use_split, style, final, pdf) ==
    draw_name(name, surname, split_candidate, use_split, style, final, pdf,
              resolve_text_baseline(pdf, [font_size |-> final.font_size,
                                          text_y |-> final.baseline]),
              IF use_split THEN resolve_split_line_gap(pdf, content_config) ELSE RInt(0))

\* faulty variant: the split override is applied to every name
size_name_always_override(name, surname, split_candidate, use_split, style) ==
    IF style.raised /= ""
    THEN [NoCert EXCEPT !.status = style.raised]
    ELSE LET final == resolve_split_style(style.font_size, style.text_y, content_config)
         IN  place_name(name, surname, split_candidate, use_split, style, final,
                        apply_text_color(set_font(NewPdf(Orientation), RatOf(final.font_size)),
                                         Get(content_config, "text_color", PyNone)))

\* lines 260-264: the split override, set_font and the text colour
size_name(name, surname, split_candidate, use_split, style) ==
    IF style.raised /= ""
    THEN [NoCert EXCEPT !.status = style.raised, !.page_width = PageSize(Orientation).w,
                        !.image_painted = TRUE, !.font_added = TRUE,
                        !.full_name = name \o <<" ">> \o surname,
                        !.first_line = Strip(name), !.second_line = Strip(surname),
                        !.split_candidate = split_candidate, !.use_split = use_split]
    ELSE LET final == IF use_split
                      THEN resolve_split_style(style.font_size, style.text_y, content_config)
                      ELSE [font_size |-> style.font_size, baseline |-> style.text_y]
         IN  place_name(name, surname, split_candidate, use_split, style, final,
                        apply_text_color(set_font(NewPdf(Orientation), RatOf(final.font_size)),
                                         Get(content_config, "text_color", PyNone)))

\* The whole call: what it leaves on the canvas, its locals and how it ended.
\* status "ok" means pdf.output(filename) ran and the filename was returned;
\* any other status is the exception that left the call.
generate_certificate(name, surname, email) ==
    LET page_width == PageSize(Orientation).w
        background_image == content_config["background_image"]
        font_path == content_config["font_path"]
        full_name == name \o <<" ">> \o surname
    IN  IF background_image.t = "absent"
        THEN [NoCert EXCEPT !.status = "KeyError", !.page_width = page_width]
        ELSE IF background_image.s \notin files
        THEN [NoCert EXCEPT !.status = "FileNotFoundError", !.page_width = page_width]
        ELSE IF font_path.t = "absent"
        THEN [NoCert EXCEPT !.status = "KeyError", !.page_width = page_width,
                            !.image_painted = TRUE]
        ELSE IF font_path.s \notin files
        THEN [NoCert EXCEPT !.status = "FileNotFoundError", !.page_width = page_width,
                            !.image_painted = TRUE]
        ELSE IF should_split_full_name_raised(full_name, content_config) /= ""
        THEN [NoCert EXCEPT !.status = should_split_full_name_raised(full_name, content_config),
                            !.page_width = page_width,
                            !.image_painted = TRUE, !.font_added = TRUE]
        ELSE size_name(name, surname,
                       should_split_full_name(full_name, content_config),
                       use_split_of(full_name, Strip(name), Strip(surname)),
                       resolve_name_style(full_name, content_config))

\* what pdf.output writes for a finished call: the page as drawn; call is the
\* row of the batch the file was written for (0 outside a batch), which
\* stands for the creation time FPDF stamps into the file
Page(c, call) ==
    [texts |-> c.texts, font_size |-> c.pdf_font_size, text_color |-> c.text_color,
     page_width |-> c.page_width, call |-> call]

\* faulty variant: an artifact that exists is left as it is
pdf_output_keep_first(store, filename, page) ==
    [path \in DOMAIN store \cup {filename} |->
        IF path \in DOMAIN store THEN store[path] ELSE page]

\* pdf.output(filename): the file is created or overwritten
pdf_output(store, filename, page) ==
    [path \in DOMAIN store \cup {filename} |->
        IF path = filename THEN page ELSE store[path]]

----------------------------------------------------------------------------
(* Inputs drawn for one rendering *)

BackgroundPath == <<"b", "g", ".", "p", "n", "g">>
FontPath == <<"f", ".", "t", "t", "f">>

DefaultConfig ==
    [orientation |-> Absent,
     background_image |-> PyStr(BackgroundPath),
     font_path |-> PyStr(FontPath),
     font_size |-> PyInt(72),
     text_y |-> Absent,
     long_name_threshold |-> Absent,
     long_name_font_size |-> Absent,
     long_name_text_y |-> Absent,
     split_name_threshold |-> Absent,
     split_name_line_gap |-> Absent,
     split_name_font_size |-> Absent,
     split_name_text_y |-> Absent,
     text_color |-> Absent]

TextYValues == {Absent, PyInt(107), PyStr(<<"o", "o", "p", "s">>)}
LongThresholdValues == {Absent, PyFloat(5, 2), PyStr(<<"x">>)}
LongFontValues == {Absent, PyFloat(57, 2), PyStr(<<"b", "a", "d">>), PyInt(0)}
LongTextYValues == {Absent, PyInt(95), PyStr(<<"o", "o", "p", "s">>)}
SplitThresholdValues == {Absent, PyNone, PyStr(<<" ", "3", " ">>), PyStr(<<"3", ".", "5">>)}
SplitFontValues == {Absent, PyStr(<<"2", "0", ".", "5">>), PyStr(<<"b", "a", "d">>)}
SplitTextYValues == {Absent, PyInt(90), PyStr(<<"o", "o", "p", "s">>)}
SplitGapValues == {Absent, PyInt(18), PyStr(<<"b", "a", "d">>)}

\* every combination of the base and long-name keys with the split threshold
LongConfigs ==
    {[DefaultConfig EXCEPT !.text_y = ty, !.long_name_threshold = lt,
                           !.long_name_font_size = lf, !.long_name_text_y = ly,
                           !.split_name_threshold = st] :
        ty \in TextYValues, lt \in LongThresholdValues, lf \in LongFontValues,
        ly \in LongTextYValues, st \in SplitThresholdValues}

\* every combination of the split keys, over base and long-name keys that are
\* unset or valid
SplitConfigs ==
    {[DefaultConfig EXCEPT !.text_y = ty, !.long_name_threshold = lt,
                           !.long_name_font_size = lf, !.long_name_text_y = ly,
                           !.split_name_threshold = st, !.split_name_font_size = sf,
                           !.split_name_text_y = sy, !.split_name_line_gap = sg] :
        ty \in {Absent, PyInt(107)}, lt \in {Absent, PyFloat(5, 2)},
        lf \in {Absent, PyFloat(57, 2)}, ly \in {Absent, PyInt(95)},
        st \in SplitThresholdValues, sf \in SplitFontValues,
        sy \in SplitTextYValues, sg \in SplitGapValues}

StyleConfigs == LongConfigs \cup SplitConfigs

\* the remaining keys, over the default style
PageConfigs ==
    {[DefaultConfig EXCEPT !.orientation = o, !.font_size = fs, !.text_color = tc,
                           !.background_image = bg] :
        o \in {Absent, PyStr(<<"p">>), PyStr(<<"l">>)},
        fs \in {PyInt(72), Absent, PyStr(<<"b", "i", "g">>)},
        tc \in {Absent, PyStr(<<"#", "0", "a", "F">>), PyStr(<<"r", "e", "d">>),
                PyStr(<<"0", "a", "F">>), PyStr(<<"#", "+", "1", "+", "2", "+", "3">>)},
        bg \in {PyStr(BackgroundPath), Absent}}

GivenNames == {Rep("A", n) : n \in 0..MaxGiven} \cup {<<" ">>}

\* short family names, and one that passes the default threshold with one more letter
FamilyNames == {Rep("b", n) : n \in 0..MaxFamily} \cup {Rep("b", DefaultSplitThreshold)}

\* a threshold too large for a float, over the default style
InfConfigs ==
    {[DefaultConfig EXCEPT !.text_y = PyInt(107), !.long_name_threshold = PyInf],
     [DefaultConfig EXCEPT !.text_y = PyInt(107), !.split_name_threshold = PyInf]}

\* the email document: subject and body template
DefaultEmailConfig ==
    [subject |-> PyStr(<<"H", "i">>), body |-> PyStr(<<"{", "n", "a", "m", "e", "}">>)]

\* no batch is running
BatchIdle ==
    /\ email_config = DefaultEmailConfig
    /\ roster = <<>>
    /\ position = 0
    /\ should_send_email = FALSE
    /\ events = <<>>
    /\ rendered = <<>>
    /\ error = ""

\* the configuration window is not open
NoTimers ==
    /\ preview_after_id = 0
    /\ timers = {}
    /\ next_timer = 1
    /\ preview_runs = 0

GuiIdle ==
    /\ preview = [status |-> "none"]
    /\ debug_file = "missing"
    /\ debug_var = FALSE
    /\ NoTimers

\* the other programs are not running
AuxIdle ==
    /\ config_files = <<>>
    /\ loaded = <<>>
    /\ GuiIdle

RenderInit ==
    /\ pc = "render"
    /\ \/ content_config \in StyleConfigs \cup InfConfigs /\ files = {BackgroundPath, FontPath}
       \/ content_config \in PageConfigs /\ files \in SUBSET {BackgroundPath, FontPath}
    /\ disk = <<>>
    /\ unwritable = {}
    /\ first_name \in GivenNames
    /\ last_name \in FamilyNames
    /\ cert = NoCert
    /\ debug_mode = [debug_mode |-> Absent]
    /\ debug_result = NoDebugResult
    /\ BatchIdle
    /\ AuxIdle

\* generate_certificate(first_name, last_name, email); pdf.output writes the artifact
GenerateCertificate ==
    /\ pc = "render"
    /\ cert' = generate_certificate(first_name, last_name, <<>>)
    /\ files' = IF cert'.status = "ok" THEN files \cup {cert'.filename} ELSE files
    /\ disk' = IF cert'.status = "ok" THEN pdf_output(disk, cert'.filename, Page(cert', 0))
               ELSE disk
    /\ pc' = "rendered"
    /\ UNCHANGED <<content_config, unwritable, first_name, last_name, debug_mode, debug_result>>
    /\ UNCHANGED <<batch_vars, aux_vars>>

RenderNext == GenerateCertificate

SpecRender == RenderInit /\ [][RenderNext]_vars

----------------------------------------------------------------------------
(* Properties of the style resolver and the layout, checked under SpecRender *)

RECURSIVE VisibleLength(_)
\* the number of non-whitespace characters of a text
VisibleLength(s) ==
    IF s = <<>> THEN 0
    ELSE (IF Head(s) \in Whitespace THEN 0 ELSE 1) + VisibleLength(Tail(s))

\* the name as rendered on one line
FullName == first_name \o <<" ">> \o last_name

\* a configured value that coerces to an integer / to a number
IsInteger(v) == PyIntOf(v).t /= "none"
IsNumber(v) == PyFloatOf(v).t /= "none"
NumberOf(v) == PyFloatOf(v)

\* the call returned a filename
Rendered == pc = "rendered" /\ cert.status = "ok"

\* the long-name override applies to the name being rendered
LongApplies ==
    /\ IsInteger(content_config.long_name_threshold)
    /\ VisibleLength(FullName) > PyIntOf(content_config.long_name_threshold).n

\* font height in mm of a size in points
FontHeight(size_pt) == RMul(RatOf(size_pt), Rat(254, 720))

\* C1: the split candidate is visible_length(full_name) > threshold, strictly,
\* with threshold = split_name_threshold when it is a valid integer and 24 when
\* the key is absent; a present but invalid threshold never splits.
C1_SplitCandidate ==
    Rendered =>
        cert.split_candidate =
            (IF content_config.split_name_threshold.t = "absent"
             THEN VisibleLength(FullName) > 24
             ELSE IF IsInteger(content_config.split_name_threshold)
             THEN VisibleLength(FullName) > PyIntOf(content_config.split_name_threshold).n
             ELSE FALSE)

\* a name one letter past the default threshold, under a config with no threshold
C1_Witness ==
    /\ Rendered
    /\ content_config.split_name_threshold.t = "absent"
    /\ VisibleLength(FullName) = 25
    /\ cert.split_candidate

\* C2: a split rendering draws two non-empty lines (given name, family name);
\* a name whose given or family part is empty after trimming is drawn on one
\* line whatever its length and the threshold.
C2_SplitPartsNonEmpty ==
    Rendered =>
        /\ cert.use_split =>
              /\ Len(cert.texts) = 2
              /\ cert.texts[1].txt = Strip(first_name) /\ cert.texts[1].txt /= <<>>
              /\ cert.texts[2].txt = Strip(last_name) /\ cert.texts[2].txt /= <<>>
        /\ (Strip(first_name) = <<>> \/ Strip(last_name) = <<>>) =>
              /\ ~cert.use_split
              /\ Len(cert.texts) = 1
              /\ cert.texts[1].txt = FullName

\* a name past the threshold whose given name is blank is drawn on one line
C2_Witness ==
    /\ Rendered
    /\ cert.split_candidate
    /\ first_name = <<" ">>
    /\ ~cert.use_split
    /\ Len(cert.texts) = 1

\* C3: with a positive base font_size the font size used to render is positive,
\* whatever long_name_font_size and split_name_font_size hold.
C3_FontSizePositive ==
    (Rendered /\ IsNumber(content_config.font_size)
              /\ RPositive(RatOf(NumberOf(content_config.font_size))))
        => RPositive(RatOf(cert.font_size_pt)) /\ RPositive(cert.pdf_font_size)

\* C4: when the long-name override applies, the baseline it resolves is
\* long_name_text_y if that is a valid number and otherwise the base text_y.
C4_LongBaselineFallsBackToTextY ==
    (Rendered /\ LongApplies) =>
        NumberOf(cert.name_style.text_y) =
            (IF IsNumber(content_config.long_name_text_y)
             THEN NumberOf(content_config.long_name_text_y)
             ELSE NumberOf(Get(content_config, "text_y", PyNone)))

\* C5: resolve_name_style applies the long-name override iff long_name_threshold
\* is a valid integer and the visible length exceeds it; then the font size is
\* long_name_font_size if valid and the base font_size otherwise; when it does
\* not apply the result is exactly (font_size, text_y).
C5_LongNameOverride ==
    Rendered =>
        /\ cert.name_style.font_size =
              (IF LongApplies /\ IsNumber(content_config.long_name_font_size)
               THEN NumberOf(content_config.long_name_font_size)
               ELSE NumberOf(content_config.font_size))
        /\ ~LongApplies => cert.name_style.text_y = Get(content_config, "text_y", PyNone)

\* the override applied and replaced the font size
C5_Witness ==
    /\ Rendered
    /\ LongApplies
    /\ IsNumber(content_config.long_name_font_size)
    /\ cert.name_style.font_size /= NumberOf(content_config.font_size)

\* C6: resolve_split_style replaces the font size by split_name_font_size and
\* the baseline by split_name_text_y, each only when valid and each
\* independently of the other, also when the incoming baseline is None.
C6_SplitStyle ==
    (Rendered /\ cert.use_split) =>
        /\ cert.font_size_pt =
              (IF IsNumber(content_config.split_name_font_size)
               THEN NumberOf(content_config.split_name_font_size)
               ELSE cert.name_style.font_size)
        /\ cert.text_y_override =
              (IF IsNumber(content_config.split_name_text_y)
               THEN NumberOf(content_config.split_name_text_y)
               ELSE cert.name_style.text_y)

\* an unset incoming baseline and an invalid font override: only the baseline changes
C6_Witness ==
    /\ Rendered
    /\ cert.use_split
    /\ cert.name_style.text_y = PyNone
    /\ content_config.split_name_font_size.t = "str"
    /\ ~IsNumber(content_config.split_name_font_size)
    /\ IsNumber(content_config.split_name_text_y)
    /\ cert.text_y_override = NumberOf(content_config.split_name_text_y)
    /\ cert.font_size_pt = cert.name_style.font_size

\* C7: the gap between the two lines is split_name_line_gap when that is a
\* valid number and otherwise 0.85 of the font height of the final font size.
C7_SplitLineGap ==
    (Rendered /\ cert.use_split) =>
        cert.gap =
            (IF IsNumber(content_config.split_name_line_gap)
             THEN RatOf(NumberOf(content_config.split_name_line_gap))
             ELSE RMul(FontHeight(cert.font_size_pt), Rat(85, 100)))

\* the default gap, taken from a font size that the split override set
C7_Witness ==
    /\ Rendered
    /\ cert.use_split
    /\ LongApplies
    /\ ~IsNumber(content_config.split_name_line_gap)
    /\ IsNumber(content_config.split_name_font_size)
    /\ cert.font_size_pt /= cert.name_style.font_size
    /\ cert.gap = RMul(FontHeight(cert.font_size_pt), Rat(85, 100))

\* C8: the baseline drawn on is the resolved baseline when that is a valid
\* number and the font height of the resolved font size otherwise.
C8_BaselineDefined ==
    Rendered =>
        /\ cert.baseline_y =
              (IF IsNumber(cert.text_y_override)
               THEN RatOf(NumberOf(cert.text_y_override))
               ELSE FontHeight(cert.font_size_pt))
        /\ \A i \in 1..Len(cert.texts) :
              i = Len(cert.texts) => cert.texts[i].y = cert.baseline_y

\* an unparseable resolved baseline falls back to the font height
C8_Witness ==
    /\ Rendered
    /\ cert.text_y_override.t = "str"
    /\ ~IsNumber(cert.text_y_override)
    /\ cert.baseline_y = FontHeight(cert.font_size_pt)
    /\ RPositive(cert.baseline_y)

\* C9: every text is placed at max((canvas_width - measured_width) / 2, 0),
\* never left of the canvas.
C9_CenterNeverNegative ==
    Rendered =>
        \A i \in 1..Len(cert.texts) :
            LET width == RMul(RInt(Len(cert.texts[i].txt)), RMul(cert.pdf_font_size, Rat(1, 2)))
                centered == RMul(RSub(cert.page_width, width), Rat(1, 2))
            IN  /\ cert.texts[i].x = RMax(centered, RInt(0))
                /\ RLeq(RInt(0), cert.texts[i].x)

----------------------------------------------------------------------------
(* resolve_debug_mode over the debug_mode documents *)

\* most blanks put before and after a word
MaxPad == 1

DebugWords ==
    FullWords \cup TestWords \cup
    {<<"m", "a", "y", "b", "e">>, <<"n", "o", "n", "e">>, <<>>, <<"t", "r", "u">>,
     <<"t", "r", "u", " ", "e">>, <<"y", "e", "s">>, <<"f", "u", "l", "l", "y">>}

Capitalize(w) == IF w = <<>> THEN w ELSE <<UpperChar(Head(w))>> \o Tail(w)

DebugStrings ==
    {Rep(" ", i) \o w \o Rep("\n", j) :
        w \in DebugWords \cup {ToUpper(x) : x \in DebugWords}
                         \cup {Capitalize(x) : x \in DebugWords},
        i \in 0..MaxPad, j \in 0..MaxPad}

DebugValues ==
    {PyStr(s) : s \in DebugStrings}
        \cup {Absent, PyNone, PyBool(TRUE), PyBool(FALSE), PyInt(0), PyInt(1), PyInt(10)}

DebugInit ==
    /\ pc = "debug"
    /\ \E v \in DebugValues : debug_mode = [debug_mode |-> v]
    /\ debug_result = NoDebugResult
    /\ content_config = DefaultConfig
    /\ files = {}
    /\ disk = <<>>
    /\ unwritable = {}
    /\ first_name = <<>>
    /\ last_name = <<>>
    /\ cert = NoCert
    /\ BatchIdle
    /\ AuxIdle

\* debug_mode_label, should_send_email = resolve_debug_mode(debug_mode)
ResolveDebugMode ==
    /\ pc = "debug"
    /\ debug_result' = resolve_debug_mode(debug_mode)
    /\ pc' = "debug_done"
    /\ UNCHANGED <<content_config, files, disk, unwritable, first_name, last_name, cert,
                   debug_mode>>
    /\ UNCHANGED <<batch_vars, aux_vars>>

DebugNext == ResolveDebugMode

SpecDebug == DebugInit /\ [][DebugNext]_vars

\* the raw value, trimmed and case-folded
NormalizedDebugMode == Lower(Strip(PyStrOf(Get(debug_mode, "debug_mode", PyNone))))

\* C10: resolve_debug_mode returns ("Full", True) exactly for full/f/true and
\* ("Test", False) exactly for test/t/false after trimming and case-folding;
\* any other value, a missing key included, raises an error naming the raw value.
C10_DebugMode ==
    pc = "debug_done" =>
        CASE NormalizedDebugMode \in {<<"f", "u", "l", "l">>, <<"f">>, <<"t", "r", "u", "e">>} ->
                debug_result.status = "ok" /\ debug_result.label = "Full" /\ debug_result.send
          [] NormalizedDebugMode \in {<<"t", "e", "s", "t">>, <<"t">>, <<"f", "a", "l", "s", "e">>} ->
                debug_result.status = "ok" /\ debug_result.label = "Test" /\ ~debug_result.send
          [] OTHER ->
                /\ debug_result.status = "ValueError"
                /\ debug_result.message = PyStrOf(Get(debug_mode, "debug_mode", PyNone))

\* a missing key is refused, naming None
C10_Witness ==
    /\ pc = "debug_done"
    /\ debug_mode.debug_mode.t = "absent"
    /\ debug_result.status = "ValueError"
    /\ debug_result.message = <<"N", "o", "n", "e">>

----------------------------------------------------------------------------
(* generator.py: the batch driver, process_csv, and the mail functions *)

\* most rows in a roster
MaxRows == 3

\* one thing the run did that is visible outside
Event(kind, row, total, to, path, info) ==
    [kind |-> kind, row |-> row, total |-> total, to |-> to, path |-> path, info |-> info]

\* what the SMTP server can do with one message: accept it, or make any of
\* connect, starttls, login and sendmail raise
SmtpOutcomes == {"sent", "SMTPException"}

\* the message built for one recipient, or the exception that left the call;
\* the body only matters through a missing key
prepare_email_content(receiver_email, name, attachment_path) ==
    IF email_config.subject.t = "absent" \/ email_config.body.t = "absent"
    THEN [raised |-> "KeyError", msg |-> <<>>]
    ELSE IF attachment_path \notin files
    THEN [raised |-> "FileNotFoundError", msg |-> <<>>]
    ELSE [raised |-> "",
          msg |-> <<[to |-> receiver_email, subject |-> email_config.subject.s,
                     attachment |-> attachment_path]>>]

\* faulty variant: no try around the SMTP calls
send_email_unguarded(receiver_email, msg, outcome) ==
    IF outcome = "sent" THEN [raised |-> "", log |-> "E-mail sent"]
    ELSE [raised |-> outcome, log |-> ""]

\* the SMTP calls run inside try/except Exception: whatever the server does,
\* the call logs one line and returns
send_email(receiver_email, msg, outcome) ==
    IF outcome = "sent" THEN [raised |-> "", log |-> "E-mail sent"]
    ELSE [raised |-> "", log |-> "Error when sending email"]

\* faulty variant: the rows are taken from the end of the file
row_of_reversed(rows, pos) == rows[Len(rows) + 1 - pos]

\* data.iterrows() enumerated from 1
row_of(rows, pos) == rows[pos]

\* faulty variant: an empty file is skipped without a warning
start_batch_silent(total, label) ==
    IF total = 0
    THEN [pc |-> "done", position |-> 0, events |-> <<>>]
    ELSE [pc |-> "row", position |-> 1,
          events |-> <<Event("banner", 0, total, <<>>, <<>>, label)>>]

\* process_csv up to the loop: an empty file is a warning and a return
start_batch(total, label) ==
    IF total = 0
    THEN [pc |-> "done", position |-> 0,
          events |-> <<Event("warning", 0, 0, <<>>, <<>>, "No participants found")>>]
    ELSE [pc |-> "row", position |-> 1,
          events |-> <<Event("banner", 0, total, <<>>, <<>>, label)>>]

\* faulty variant: progress counts from zero
progress_event_from_zero(pos, total) ==
    Event("progress", pos - 1, total, <<>>, <<>>, "certificates prepared")

\* the progress line logged and printed for a row
progress_event(pos, total) ==
    Event("progress", pos, total, <<>>, <<>>, "certificates prepared")

\* the next iteration of the loop, or its end
next_row(pos, total) ==
    IF pos < total THEN [pc |-> "row", position |-> pos + 1]
    ELSE [pc |-> "done", position |-> pos]

----------------------------------------------------------------------------
(* The run of the program: __main__ and process_csv *)

\* the cells of a row are strings (an empty cell, which pandas reads as NaN,
\* is outside the rows drawn); two rows share their names
Rows ==
    {[FirstName |-> <<"A">>, LastName |-> <<"b">>, Email |-> <<"a", "@", "x">>],
     [FirstName |-> <<"A">>, LastName |-> <<"b", "b">>, Email |-> <<"b", "@", "x">>],
     [FirstName |-> <<"A">>, LastName |-> <<"b">>, Email |-> <<"c", "@", "x">>]}

Rosters == UNION {[1..n -> Rows] : n \in 0..MaxRows}

\* the artifacts the rows are written to
RowArtifacts ==
    {CertificatesDir \o r.FirstName \o <<"_">> \o r.LastName \o PdfSuffix : r \in Rows}

BatchConfigs ==
    {[DefaultConfig EXCEPT !.text_y = PyInt(107), !.font_size = fs] :
        fs \in {PyInt(72), Absent, PyStr(<<"b", "i", "g">>)}}
    \cup {[DefaultConfig EXCEPT !.orientation = PyStr(<<"p">>), !.font_size = PyInt(36)],
          [DefaultConfig EXCEPT !.long_name_threshold = PyInt(1),
                                !.long_name_font_size = PyInt(48),
                                !.split_name_threshold = PyInt(1)]}

EmailConfigs == {DefaultEmailConfig, [DefaultEmailConfig EXCEPT !.subject = Absent]}

MainDebugModes == {PyStr(<<"F", "u", "l", "l">>), PyStr(<<"t", "e", "s", "t">>),
                   PyStr(<<"m", "a", "y", "b", "e">>)}

MainInit ==
    /\ pc = "main"
    /\ content_config \in BatchConfigs
    /\ email_config \in EmailConfigs
    /\ \E v \in MainDebugModes : debug_mode = [debug_mode |-> v]
    /\ files \in {{BackgroundPath, FontPath}, {BackgroundPath}, {FontPath}}
    /\ \E path \in RowArtifacts : unwritable \in {{}, {path}}
    /\ roster \in Rosters
    /\ position = 0
    /\ should_send_email = FALSE
    /\ events = <<>>
    /\ rendered = <<>>
    /\ error = ""
    /\ disk = <<>>
    /\ first_name = <<>>
    /\ last_name = <<>>
    /\ cert = NoCert
    /\ debug_result = NoDebugResult
    /\ AuxIdle

\* __main__ up to the call of process_csv: an unsupported debug mode ends the run
Main ==
    /\ pc = "main"
    /\ debug_result' = resolve_debug_mode(debug_mode)
    /\ IF debug_result'.status = "ok"
       THEN /\ should_send_email' = debug_result'.send
            /\ pc' = "read_csv"
            /\ error' = error
       ELSE /\ should_send_email' = should_send_email
            /\ pc' = "aborted"
            /\ error' = debug_result'.status
    /\ UNCHANGED <<content_config, files, disk, unwritable, first_name, last_name, cert,
                   debug_mode, email_config, roster, position, events, rendered>>
    /\ UNCHANGED aux_vars

\* process_csv: read the file, return on an empty one, print the banner
ReadCsv ==
    /\ pc = "read_csv"
    /\ LET start == start_batch(Len(roster), debug_result.label)
       IN  /\ pc' = start.pc
           /\ position' = start.position
           /\ events' = events \o start.events
    /\ UNCHANGED <<content_config, files, disk, unwritable, first_name, last_name, cert,
                   debug_mode, debug_result, email_config, roster, should_send_email, rendered,
                   error>>
    /\ UNCHANGED aux_vars

\* one iteration up to the progress line: generate_certificate is called with
\* nothing around it, so its exception leaves process_csv
RenderRow ==
    /\ pc = "row"
    /\ first_name' = row_of(roster, position).FirstName
    /\ last_name' = row_of(roster, position).LastName
    /\ cert' = generate_certificate(first_name', last_name', row_of(roster, position).Email)
    /\ IF cert'.status = "ok"
       THEN /\ files' = files \cup {cert'.filename}
            /\ disk' = pdf_output(disk, cert'.filename, Page(cert', position))
            /\ rendered' = Append(rendered, cert')
            /\ events' = events \o
                  <<Event("generate", position, Len(roster), row_of(roster, position).Email,
                          cert'.filename, "generated certificate"),
                    progress_event(position, Len(roster))>>
            /\ error' = error
            /\ IF should_send_email
               THEN pc' = "mail" /\ position' = position
               ELSE /\ pc' = next_row(position, Len(roster)).pc
                    /\ position' = next_row(position, Len(roster)).position
       ELSE /\ files' = files
            /\ disk' = disk
            /\ rendered' = rendered
            /\ events' = events
            /\ error' = cert'.status
            /\ pc' = "aborted"
            /\ position' = position
    /\ UNCHANGED <<content_config, unwritable, debug_mode, debug_result, email_config, roster,
                   should_send_email>>
    /\ UNCHANGED aux_vars

\* the rest of the iteration when mail is on: prepare_email_content, whose
\* exception leaves process_csv, then send_email
MailRow ==
    /\ pc = "mail"
    /\ LET row == row_of(roster, position)
           prepared == prepare_email_content(row.Email, row.FirstName, cert.filename)
           call == Event("prepare", position, Len(roster), row.Email, cert.filename, "")
       IN  IF prepared.raised /= ""
           THEN /\ events' = events \o <<call>>
                /\ error' = prepared.raised
                /\ pc' = "aborted"
                /\ position' = position
           ELSE \E outcome \in SmtpOutcomes :
                /\ events' = events \o
                      <<call,
                        Event("send", position, Len(roster), prepared.msg[1].to,
                              prepared.msg[1].attachment, outcome)>> \o
                      (IF send_email(row.Email, prepared.msg, outcome).log = "" THEN <<>>
                       ELSE <<Event("log", position, Len(roster), row.Email, <<>>,
                                    send_email(row.Email, prepared.msg, outcome).log)>>)
                /\ IF send_email(row.Email, prepared.msg, outcome).raised = ""
                   THEN /\ error' = error
                        /\ pc' = next_row(position, Len(roster)).pc
                        /\ position' = next_row(position, Len(roster)).position
                   ELSE /\ error' = send_email(row.Email, prepared.msg, outcome).raised
                        /\ pc' = "aborted"
                        /\ position' = position
    /\ UNCHANGED <<content_config, files, disk, unwritable, first_name, last_name, cert,
                   debug_mode, debug_result, email_config, roster, should_send_email, rendered>>
    /\ UNCHANGED aux_vars

MainNext == Main \/ ReadCsv \/ RenderRow \/ MailRow

Spec == MainInit /\ [][MainNext]_vars

----------------------------------------------------------------------------
(* Properties of the batch driver, checked under Spec *)

\* process_csv was called and has returned or raised
BatchEnded == debug_result.status = "ok" /\ pc \in {"done", "aborted"}

\* the events of one kind, in the order they happened
EventsOf(kind) == SelectSeq(events, LAMBDA e : e.kind = kind)

\* the rows of the events of one kind, in the order they happened
RowsOf(kind) == [k \in 1..Len(EventsOf(kind)) |-> EventsOf(kind)[k].row]

\* a certificate was written for row i / row i was handed to the mail functions
Generated(i) == \E k \in 1..Len(events) : events[k].kind = "generate" /\ events[k].row = i
Prepared(i) == \E k \in 1..Len(events) : events[k].kind = "prepare" /\ events[k].row = i
Sent(i) == \E k \in 1..Len(events) : events[k].kind = "send" /\ events[k].row = i

\* how rendering a row on its own ends under this configuration
RenderStatus(r) == generate_certificate(r.FirstName, r.LastName, r.Email).status
Renderable(r) == RenderStatus(r) = "ok"

\* C11: with should_send false the mail transport is never invoked, neither
\* message preparation nor send_email, and every row that can be rendered
\* still gets its certificate.
C11_TestModeRendersEveryRow ==
    (BatchEnded /\ ~should_send_email) =>
        /\ EventsOf("prepare") = <<>>
        /\ EventsOf("send") = <<>>
        /\ \A i \in 1..Len(roster) : Renderable(roster[i]) => Generated(i)

\* C12: a render failure for one row (missing asset or write failure) is
\* caught at the batch driver and is fatal only to that row: every later row
\* that can be rendered is rendered, and handed to the mail functions when
\* should_send is true.
C12_RenderFailureIsPerRow ==
    BatchEnded =>
        \A j \in 1..position :
            RenderStatus(roster[j]) \in {"FileNotFoundError", "OSError"} =>
                /\ error = ""
                /\ \A i \in (j + 1)..Len(roster) :
                      Renderable(roster[i]) =>
                          Generated(i) /\ (should_send_email => Prepared(i))

\* the server refused the message of row j
SendFailed(j) ==
    \E k \in 1..Len(events) :
        events[k].kind = "send" /\ events[k].row = j /\ events[k].info = "SMTPException"

\* C13: a mail-transport failure for one row is logged and swallowed by
\* send_email: it never leaves process_csv, and every later row that can be
\* rendered is still rendered and handed to the transport.
C13_TransportFailureIsPerRow ==
    BatchEnded =>
        \A j \in 1..position :
            SendFailed(j) =>
                /\ error /= "SMTPException"
                /\ \E k \in 1..Len(events) :
                      /\ events[k].kind = "log" /\ events[k].row = j
                      /\ events[k].info = "Error when sending email"
                /\ \A i \in (j + 1)..Len(roster) :
                      Renderable(roster[i]) => Generated(i) /\ Sent(i)

\* the artifact path of a row
ArtifactOf(r) == CertificatesDir \o r.FirstName \o <<"_">> \o r.LastName \o PdfSuffix

\* C14: rows are processed one at a time in roster order: the certificates are
\* generated for rows 1, 2, ... in that order, the sends follow the same order,
\* and the email of row i, carrying that row's address and artifact path, is
\* sent after row i's certificate and before row i+1's certificate.
C14_RosterOrder ==
    /\ \A k \in 1..Len(EventsOf("generate")) :
          /\ RowsOf("generate")[k] = k
          /\ EventsOf("generate")[k].to = roster[k].Email
          /\ EventsOf("generate")[k].path = ArtifactOf(roster[k])
    /\ \A k \in 1..Len(EventsOf("send")) :
          k > 1 => RowsOf("send")[k - 1] < RowsOf("send")[k]
    /\ \A k \in 1..Len(events) :
          events[k].kind = "send" =>
              /\ events[k].to = roster[events[k].row].Email
              /\ events[k].path = ArtifactOf(roster[events[k].row])
              /\ \E g \in 1..(k - 1) :
                    events[g].kind = "generate" /\ events[g].row = events[k].row
              /\ \A g \in 1..Len(events) :
                    events[g].kind = "generate" =>
                        IF g < k THEN events[g].row <= events[k].row
                        ELSE events[g].row > events[k].row

\* three different rows, each rendered and mailed in turn
C14_Witness ==
    /\ pc = "done"
    /\ Len(roster) = 3
    /\ roster[1] /= roster[2] /\ roster[2] /= roster[3]
    /\ RowsOf("generate") = <<1, 2, 3>>
    /\ RowsOf("send") = <<1, 2, 3>>

\* C15 as stated: progress position/total is emitted once after each row has
\* been handled, its certificate rendered and, when should_send is true, its
\* artifact handed to the mail transport; the positions are 1, 2, ..., total.
C15_ProgressAfterRowHandled ==
    /\ \A k \in 1..Len(events) :
          events[k].kind = "progress" =>
              /\ \E g \in 1..(k - 1) :
                    events[g].kind = "generate" /\ events[g].row = events[k].row
              /\ should_send_email =>
                    \E m \in 1..(k - 1) :
                        events[m].kind = "send" /\ events[m].row = events[k].row
    /\ \A k \in 1..Len(EventsOf("progress")) : RowsOf("progress")[k] = k
    /\ pc = "done" /\ roster /= <<>> =>
          RowsOf("progress")[Len(RowsOf("progress"))] = Len(roster)

\* C15 amended: progress position/total is emitted once for each row, right
\* after its certificate has been rendered and before the row is handed to the
\* mail functions; the positions are 1, 2, ... without gaps, one per rendered
\* certificate, each with total = the number of rows, and when process_csv
\* returns the last position equals total.
C15_ProgressAfterRender ==
    /\ \A k \in 1..Len(events) :
          events[k].kind = "progress" =>
              /\ k > 1
              /\ events[k - 1].kind = "generate" /\ events[k - 1].row = events[k].row
              /\ events[k].total = Len(roster)
              /\ \A m \in 1..(k - 1) :
                    events[m].kind \in {"prepare", "send"} => events[m].row < events[k].row
    /\ \A k \in 1..Len(events) :
          events[k].kind = "generate" =>
              k < Len(events) /\ events[k + 1].kind = "progress"
    /\ \A k \in 1..Len(EventsOf("progress")) : RowsOf("progress")[k] = k
    /\ pc = "done" /\ roster /= <<>> =>
          RowsOf("progress")[Len(RowsOf("progress"))] = Len(roster)

\* a mailed batch of three rows that ran to its end
C15_Witness ==
    /\ pc = "done"
    /\ should_send_email
    /\ RowsOf("progress") = <<1, 2, 3>>
    /\ RowsOf("send") = <<1, 2, 3>>
    /\ \E k \in 1..(Len(events) - 1) :
          /\ events[k].kind = "progress" /\ events[k].row = 1 /\ events[k].total = 3
          /\ events[k + 1].kind = "prepare" /\ events[k + 1].row = 1

\* C16: a batch over an empty roster renders no certificate, sends no email,
\* logs one warning and returns without an error.
C16_EmptyRoster ==
    (debug_result.status = "ok" /\ roster = <<>> /\ pc /= "read_csv") =>
        /\ pc = "done"
        /\ error = ""
        /\ Len(events) = 1
        /\ events[1].kind = "warning"
        /\ cert = NoCert
        /\ files \cap RowArtifacts = {}

\* the run over an empty file has returned
C16_Witness ==
    /\ pc = "done"
    /\ roster = <<>>
    /\ EventsOf("warning") /= <<>>
    /\ error = ""

----------------------------------------------------------------------------
(* Properties of one rendering, checked under SpecRender *)

\* both asset keys are configured
AssetsConfigured ==
    content_config.background_image.t = "str" /\ content_config.font_path.t = "str"

\* the artifacts written so far
Artifacts == files \ {BackgroundPath, FontPath}

\* C17: when the background image path or the font path does not exist, the
\* rendering fails with the asset error and nothing was done for it: no
\* background painted, no font loaded, no text drawn, no artifact written,
\* whichever asset is missing.
C17_NoIOWhenAssetMissing ==
    (/\ pc = "rendered"
     /\ AssetsConfigured
     /\ \/ content_config.background_image.s \notin files
        \/ content_config.font_path.s \notin files) =>
        /\ cert.status = "FileNotFoundError"
        /\ ~cert.image_painted
        /\ ~cert.font_added
        /\ cert.texts = <<>>
        /\ Artifacts = {}

\* C19: style resolution never raises on soft anomalies: with a numeric
\* font_size and both assets in place the rendering completes, whatever
\* text_y, the long-name keys, the split keys and text_color hold.
C19_StyleNeverRaises ==
    (/\ pc = "rendered"
     /\ IsNumber(content_config.font_size)
     /\ AssetsConfigured
     /\ {content_config.background_image.s, content_config.font_path.s} \subseteq files) =>
        cert.status = "ok"

\* x of a text centered on the page at a font size given in points
CenteredX(text, size_pt) ==
    RMul(RSub(cert.page_width, RMul(RInt(Len(text)), RMul(FontHeight(size_pt), Rat(1, 2)))),
         Rat(1, 2))

UnsplitBaselineValue ==
    IF LongApplies /\ content_config.long_name_text_y.t /= "absent"
    THEN content_config.long_name_text_y
    ELSE Get(content_config, "text_y", PyNone)

----------------------------------------------------------------------------
(* Properties of the artifacts, checked under Spec *)

\* the rows rendered so far whose artifact is path
WritersOf(path) == {k \in 1..Len(rendered) : rendered[k].filename = path}

\* C21: the artifact path is ./certificates/{given}_{family}.pdf, whatever the
\* email, the config and the position of the row; rows with the same names
\* write the same artifact, and the artifact holds what the latest of them
\* wrote.
C21_ArtifactPathAndLastWrite ==
    /\ \A k \in 1..Len(rendered) :
          /\ rendered[k].filename =
                CertificatesDir \o roster[k].FirstName \o <<"_">> \o roster[k].LastName
                    \o PdfSuffix
          /\ rendered[k].filename \in DOMAIN disk
    /\ \A i, j \in 1..Len(rendered) :
          (roster[i].FirstName = roster[j].FirstName /\ roster[i].LastName = roster[j].LastName)
              => rendered[i].filename = rendered[j].filename
    /\ \A path \in DOMAIN disk :
          /\ WritersOf(path) /= {}
          /\ \A k \in WritersOf(path) : disk[path].call >= k
          /\ disk[path].call \in WritersOf(path)
          /\ disk[path].texts = rendered[disk[path].call].texts

\* two rows with the same names and different addresses, the later one on disk
C21_Witness ==
    /\ pc = "done"
    /\ Len(roster) = 3
    /\ roster[1].FirstName = roster[3].FirstName
    /\ roster[1].LastName = roster[3].LastName
    /\ roster[1].Email /= roster[3].Email
    /\ roster[2].LastName /= roster[1].LastName
    /\ Len(rendered) = 3
    /\ disk[rendered[1].filename].call = 3
    /\ disk[rendered[2].filename].call = 2

----------------------------------------------------------------------------
(* Properties of the text colour, checked under SpecRender *)

\* a string of the form #RGB or #RRGGBB
IsHashHex(v) ==
    /\ v.t = "str"
    /\ Len(v.s) \in {4, 7}
    /\ v.s[1] = "#"
    /\ \A i \in 2..Len(v.s) : IsHex(v.s[i])

\* the colour such a string stands for, #RGB read as #RRGGBB
HashHexColor(v) ==
    IF Len(v.s) = 4
    THEN <<17 * HexVal(v.s[2]), 17 * HexVal(v.s[3]), 17 * HexVal(v.s[4])>>
    ELSE <<16 * HexVal(v.s[2]) + HexVal(v.s[3]), 16 * HexVal(v.s[4]) + HexVal(v.s[5]),
           16 * HexVal(v.s[6]) + HexVal(v.s[7])>>

\* C22: the text colour is taken from text_color only when it is a string of
\* the form #RGB or #RRGGBB, #RGB expanded by doubling each digit; for any other
\* value, an absent one included, the text is black.
C22_ColorOnlyFromHashHex ==
    Rendered =>
        cert.text_color =
            (IF IsHashHex(content_config.text_color)
             THEN HashHexColor(content_config.text_color)
             ELSE <<0, 0, 0>>)

----------------------------------------------------------------------------
(* generator.py: load_config *)

\* most documents in one call
MaxDocs == 3

\* faulty variant of dict.update: a key already present keeps its value
dict_update_keep(config, current_config) ==
    [k \in DOMAIN config \cup DOMAIN current_config |->
        IF k \in DOMAIN config THEN config[k] ELSE current_config[k]]

\* config.update(current_config)
dict_update(config, current_config) ==
    [k \in DOMAIN config \cup DOMAIN current_config |->
        IF k \in DOMAIN current_config THEN current_config[k] ELSE config[k]]

RECURSIVE load_config_from(_, _)
\* the loop of load_config from a dictionary built so far
load_config_from(config, documents) ==
    IF documents = <<>> THEN config
    ELSE load_config_from(dict_update(config, Head(documents)), Tail(documents))

\* load_config(config_files), every file holding a JSON object
load_config(documents) == load_config_from(<<>>, documents)

ConfigKeys == {"subject", "body"}
ConfigValues == {"x", "y"}

\* the JSON objects over these keys and values
Documents == UNION {[keys -> ConfigValues] : keys \in SUBSET ConfigKeys}

LoadInit ==
    /\ pc = "load"
    /\ config_files \in UNION {[1..n -> Documents] : n \in 0..MaxDocs}
    /\ loaded = <<>>
    /\ content_config = DefaultConfig
    /\ files = {}
    /\ disk = <<>>
    /\ unwritable = {}
    /\ first_name = <<>>
    /\ last_name = <<>>
    /\ cert = NoCert
    /\ debug_mode = [debug_mode |-> Absent]
    /\ debug_result = NoDebugResult
    /\ BatchIdle
    /\ GuiIdle

\* config = load_config(config_files)
LoadConfig ==
    /\ pc = "load"
    /\ loaded' = load_config(config_files)
    /\ pc' = "loaded"
    /\ UNCHANGED <<content_config, files, disk, unwritable, first_name, last_name, cert,
                   debug_mode, debug_result, config_files>>
    /\ UNCHANGED <<batch_vars, gui_vars>>

LoadNext == LoadConfig

SpecLoad == LoadInit /\ [][LoadNext]_vars

\* the documents that hold a key
HoldersOf(k) == {i \in 1..Len(config_files) : k \in DOMAIN config_files[i]}

\* C24: load_config returns the union of the keys of the documents; a key
\* held by several documents has the value of the latest of them, a key held
\* by one document that document's value.
C24_LaterDocumentWins ==
    pc = "loaded" =>
        /\ DOMAIN loaded = UNION {DOMAIN config_files[i] : i \in 1..Len(config_files)}
        /\ \A k \in DOMAIN loaded :
              \E i \in HoldersOf(k) :
                  /\ \A j \in HoldersOf(k) : j <= i
                  /\ loaded[k] = config_files[i][k]

\* a key held by the first and the last document with different values, and a
\* key held by the middle document only
C24_Witness ==
    /\ pc = "loaded"
    /\ Len(config_files) = 3
    /\ HoldersOf("subject") = {1, 3}
    /\ config_files[1]["subject"] /= config_files[3]["subject"]
    /\ loaded["subject"] = config_files[3]["subject"]
    /\ HoldersOf("body") = {2}
    /\ loaded["body"] = config_files[2]["body"]

\* what the style resolution of one call produced
StyleOf(c) ==
    [font_size |-> c.font_size_pt, baseline_override |-> c.text_y_override,
     baseline |-> c.baseline_y, split_candidate |-> c.split_candidate,
     use_split |-> c.use_split, gap |-> c.gap, name_style |-> c.name_style,
     text_color |-> c.text_color]

----------------------------------------------------------------------------
(* Properties of the split rendering and of the cascade, checked under SpecRender *)

\* C25: a split rendering draws exactly two texts: the given name on baseline
\* minus gap and the family name on the resolved baseline, each centered on its
\* own measured width; the full "given family" string is not drawn.
C25_SplitLines ==
    (Rendered /\ cert.use_split) =>
        /\ Len(cert.texts) = 2
        /\ cert.texts[1].txt = Strip(first_name)
        /\ cert.texts[1].y = RSub(cert.baseline_y, cert.gap)
        /\ cert.texts[1].x = CenteredX(Strip(first_name), cert.font_size_pt)
        /\ cert.texts[2].txt = Strip(last_name)
        /\ cert.texts[2].y = cert.baseline_y
        /\ cert.texts[2].x = CenteredX(Strip(last_name), cert.font_size_pt)
        /\ \A i \in 1..Len(cert.texts) : cert.texts[i].txt /= FullName

\* two lines of different length, the first above the second
C25_Witness ==
    /\ Rendered
    /\ cert.use_split
    /\ Len(Strip(first_name)) < Len(Strip(last_name))
    /\ RPositive(cert.gap)
    /\ RLess(cert.texts[1].y, cert.texts[2].y)
    /\ RLess(cert.texts[2].x, cert.texts[1].x)

\* the configuration without the three split overrides
WithoutSplitOverrides ==
    [content_config EXCEPT !.split_name_font_size = Absent, !.split_name_text_y = Absent,
                           !.split_name_line_gap = Absent]

\* C26: when the name is not split (threshold not exceeded, threshold invalid,
\* or a name part empty) split_name_font_size, split_name_text_y and
\* split_name_line_gap have no effect: font size, baseline and the drawn
\* position are those of the same configuration without these keys.
C26_SplitOverridesOnlyWhenSplit ==
    (Rendered /\ ~cert.use_split) =>
        LET style == resolve_name_style(FullName, WithoutSplitOverrides)
            baseline == IF IsNumber(style.text_y) THEN RatOf(NumberOf(style.text_y))
                        ELSE FontHeight(style.font_size)
        IN  /\ cert.font_size_pt = style.font_size
            /\ cert.pdf_font_size = FontHeight(style.font_size)
            /\ cert.text_y_override = style.text_y
            /\ cert.baseline_y = baseline
            /\ cert.gap = RInt(0)
            /\ cert.texts = <<[x |-> CenteredX(FullName, style.font_size), y |-> baseline,
                               txt |-> FullName]>>

\* a name past the threshold with a blank given name, under a configuration
\* that sets all three split overrides
C26_Witness ==
    /\ Rendered
    /\ cert.split_candidate
    /\ ~cert.use_split
    /\ IsNumber(content_config.split_name_font_size)
    /\ IsNumber(content_config.split_name_text_y)
    /\ IsNumber(content_config.split_name_line_gap)
    /\ cert.font_size_pt /= NumberOf(content_config.split_name_font_size)
    /\ cert.baseline_y /= RatOf(NumberOf(content_config.split_name_text_y))

\* C27: when both the long-name override and the split apply, the final font
\* size is split_name_font_size if valid, else long_name_font_size if valid,
\* else font_size; the final baseline is split_name_text_y if valid, else
\* long_name_text_y if valid, else text_y.
C27_CascadeOrder ==
    (Rendered /\ LongApplies /\ cert.use_split) =>
        /\ cert.font_size_pt =
              (IF IsNumber(content_config.split_name_font_size)
               THEN NumberOf(content_config.split_name_font_size)
               ELSE IF IsNumber(content_config.long_name_font_size)
               THEN NumberOf(content_config.long_name_font_size)
               ELSE NumberOf(content_config.font_size))
        /\ NumberOf(cert.text_y_override) =
              (IF IsNumber(content_config.split_name_text_y)
               THEN NumberOf(content_config.split_name_text_y)
               ELSE IF IsNumber(content_config.long_name_text_y)
               THEN NumberOf(content_config.long_name_text_y)
               ELSE NumberOf(Get(content_config, "text_y", PyNone)))

----------------------------------------------------------------------------
(* config_gui.py: the preview of the recipient name *)

\* the threshold the preview splits at when the field is empty
PreviewSplitThreshold == 24

\* the text drawn when the preview name field is blank
SampleRecipient ==
    <<"S", "a", "m", "p", "l", "e", " ", "R", "e", "c", "i", "p", "i", "e", "n", "t">>

\* self.vars[key].get(): the text of an entry field
field(fields, key) == fields[key].s

\* str.split(): the words of a text, split at runs of whitespace
RECURSIVE SplitWords(_)
SplitWords(s) ==
    LET t == LStrip(s)
        stops == {i \in 1..Len(t) : t[i] \in Whitespace}
        k == IF stops = {} THEN Len(t) + 1 ELSE CHOOSE i \in stops : \A j \in stops : i <= j
    IN  IF t = <<>> THEN <<>>
        ELSE <<SubSeq(t, 1, k - 1)>> \o SplitWords(SubSeq(t, k, Len(t)))

\* " ".join(words)
RECURSIVE JoinWords(_)
JoinWords(words) ==
    IF words = <<>> THEN <<>>
    ELSE IF Len(words) = 1 THEN words[1]
    ELSE words[1] \o <<" ">> \o JoinWords(Tail(words))

_split_preview_lines(full_name) ==
    LET parts == SplitWords(Strip(full_name))
    IN  IF Len(parts) <= 1 THEN <<Strip(full_name), <<>>>>
        ELSE LET first_line == Strip(JoinWords(SubSeq(parts, 1, Len(parts) - 1)))
             IN  <<IF first_line /= <<>> THEN first_line ELSE Strip(full_name),
                   Strip(parts[Len(parts)])>>

_should_split_preview_name(fields, full_name) ==
    LET raw_value == Strip(field(fields, "split_name_threshold"))
        threshold == IF raw_value /= <<>> THEN _safe_int(PyStr(raw_value))
                     ELSE PyInt(PreviewSplitThreshold)
    IN  IF threshold.t = "none" THEN FALSE
        ELSE _count_name_characters(full_name) > threshold.n

_apply_split_preview_overrides(fields, font_size, baseline) ==
    LET raw_font == Strip(field(fields, "split_name_font_size"))
        override_font == _safe_float(PyStr(raw_font))
        raw_baseline == Strip(field(fields, "split_name_text_y"))
        override_baseline == _safe_float(PyStr(raw_baseline))
    IN  [font_size |-> IF raw_font /= <<>> /\ override_font.t /= "none"
                       THEN override_font ELSE font_size,
         baseline |-> IF raw_baseline /= <<>> /\ override_baseline.t /= "none"
                      THEN override_baseline ELSE baseline]

_resolve_preview_style(fields, full_name, split) ==
    LET parsed_font_size == _safe_float(PyStr(field(fields, "font_size")))
        base_font_size == IF Truthy(parsed_font_size) THEN parsed_font_size ELSE PyFloat(32, 1)
        default_baseline == _safe_float(PyStr(field(fields, "text_y")))
        threshold_value == _safe_int(PyStr(field(fields, "long_name_threshold")))
        alt_font_size == _safe_float(PyStr(field(fields, "long_name_font_size")))
        alt_baseline == _safe_float(PyStr(field(fields, "long_name_text_y")))
        long == threshold_value.t /= "none"
                /\ _count_name_characters(full_name) > threshold_value.n
        font_size == IF long /\ Truthy(alt_font_size) THEN alt_font_size ELSE base_font_size
        baseline == IF long /\ alt_baseline.t /= "none" THEN alt_baseline ELSE default_baseline
    IN  IF split THEN _apply_split_preview_overrides(fields, font_size, baseline)
        ELSE [font_size |-> font_size, baseline |-> baseline]

_resolve_baseline_mm(font_size_pt, baseline_override) ==
    IF baseline_override.t /= "none" THEN RatOf(baseline_override)
    ELSE _pt_to_mm(RatOf(IF Truthy(font_size_pt) THEN font_size_pt ELSE PyFloat(32, 1)))

\* the part of update_preview that decides how the name is drawn
update_preview(fields, name_field) ==
    LET preview_text == IF Strip(name_field) /= <<>> THEN Strip(name_field) ELSE SampleRecipient
        initial_split == _should_split_preview_name(fields, preview_text)
        lines == IF initial_split THEN _split_preview_lines(preview_text) ELSE <<<<>>, <<>>>>
        should_split == initial_split /\ lines[1] /= <<>> /\ lines[2] /= <<>>
        style == _resolve_preview_style(fields, preview_text, should_split)
    IN  [status |-> "drawn", preview_text |-> preview_text,
         initial_split |-> initial_split, should_split |-> should_split,
         first_line |-> lines[1], second_line |-> lines[2],
         font_size_pt |-> style.font_size, baseline_override |-> style.baseline,
         baseline_mm |-> _resolve_baseline_mm(style.font_size, style.baseline)]

\* the texts typed into the entry fields of the content tab
FieldConfigs ==
    {[DefaultConfig EXCEPT
         !.orientation = PyStr(<<"L">>),
         !.text_color = PyStr(<<>>),
         !.split_name_line_gap = PyStr(<<>>),
         !.font_size = PyStr(fs),
         !.text_y = PyStr(ty),
         !.long_name_threshold = PyStr(lt),
         !.long_name_font_size = PyStr(lf),
         !.long_name_text_y = PyStr(ly),
         !.split_name_threshold = PyStr(st),
         !.split_name_font_size = PyStr(sf),
         !.split_name_text_y = PyStr(sy)] :
     fs \in {<<"3", "2">>, <<"0">>, <<>>},
     ty \in {<<"1", "0", "7">>, <<>>},
     lt \in {<<"2">>, <<>>},
     lf \in {<<"2", "8">>, <<"0">>, <<>>},
     ly \in {<<"9", "5">>, <<"o", "o", "p", "s">>, <<>>},
     st \in {<<" ", "3", " ">>, <<>>},
     sf \in {<<"2", "0", ".", "5">>, <<>>},
     sy \in {<<"9", "0">>, <<>>}}

\* the window was built (__init__ scheduled the first preview), it shows the
\* fields and the preview name field holds a recipient's name
PreviewInit ==
    /\ pc = "preview"
    /\ content_config \in FieldConfigs
    /\ files = {BackgroundPath, FontPath}
    /\ disk = <<>>
    /\ unwritable = {}
    /\ first_name \in GivenNames
    /\ last_name \in FamilyNames
    /\ Strip(first_name \o <<" ">> \o last_name) /= <<>>
    /\ cert = NoCert
    /\ debug_mode = [debug_mode |-> Absent]
    /\ debug_result = NoDebugResult
    /\ BatchIdle
    /\ config_files = <<>>
    /\ loaded = <<>>
    /\ preview = [status |-> "none"]
    /\ debug_file = "missing"
    /\ debug_var = FALSE
    /\ preview_after_id = 1
    /\ timers = {1}
    /\ next_timer = 2
    /\ preview_runs = 0

\* the preview timer fires: update_preview clears the timer id and draws the name
UpdatePreview ==
    /\ pc = "preview"
    /\ \E t \in timers : timers' = timers \ {t}
    /\ preview_after_id' = 0
    /\ preview' = update_preview(content_config, first_name \o <<" ">> \o last_name)
    /\ preview_runs' = preview_runs + 1
    /\ pc' = "previewed"
    /\ UNCHANGED <<content_config, files, disk, unwritable, first_name, last_name, cert,
                   debug_mode, debug_result>>
    /\ UNCHANGED <<batch_vars, config_files, loaded, debug_file, debug_var, next_timer>>

PreviewNext == UpdatePreview

SpecPreview == PreviewInit /\ [][PreviewNext]_vars

\* what generate_certificate resolves for the name and the fields shown
GeneratorStyle == generate_certificate(first_name, last_name, <<>>)

\* C28: for every name and every content configuration given as field texts,
\* the preview takes the same split-threshold decision, the same font size
\* and the same baseline as the generator does for that name and those values.
C28_PreviewMatchesGenerator ==
    preview.status = "drawn" =>
        /\ GeneratorStyle.status = "ok"
        /\ preview.initial_split = should_split_full_name(FullName, content_config)
        /\ preview.should_split = GeneratorStyle.use_split
        /\ RatOf(preview.font_size_pt) = RatOf(GeneratorStyle.font_size_pt)
        /\ preview.baseline_mm = GeneratorStyle.baseline_y

----------------------------------------------------------------------------
(* config_gui.py: the debug tab *)

\* what open() and json.load make of config/debug_mode.json
DebugFileKinds == {"missing", "unreadable", "malformed", "array", "object"}

\* str(data.get("debug_mode", "Test")).strip().lower()
GuiNormalized(data) ==
    Lower(Strip(PyStrOf(Get(data, "debug_mode", PyStr(<<"T", "e", "s", "t">>)))))

\* load_debug_config: the value of debug_var afterwards and how the call ended
load_debug_config(file, data, var) ==
    CASE file = "missing" -> [debug_var |-> TRUE, outcome |-> "missing"]
      [] file \in {"unreadable", "malformed"} -> [debug_var |-> var, outcome |-> "failed"]
      [] file = "array" -> [debug_var |-> var, outcome |-> "AttributeError"]
      [] OTHER ->
            IF GuiNormalized(data) \in TestWords
            THEN [debug_var |-> TRUE, outcome |-> "Test"]
            ELSE IF GuiNormalized(data) \in FullWords
            THEN [debug_var |-> FALSE, outcome |-> "Full"]
            ELSE [debug_var |-> TRUE, outcome |-> "unsupported"]

\* save_debug_config: the document written
save_debug_config(var) ==
    [debug_mode |-> PyStr(IF var THEN <<"T", "e", "s", "t">> ELSE <<"F", "u", "l", "l">>)]

\* the window is open on the debug tab
DebugTabPcs ==
    {"gui", "debug_loaded", "debug_load_raised", "debug_toggled", "debug_saved",
     "debug_save_failed"}

\* the window was just built: debug_var is False, the file is in any condition
DebugTabInit ==
    /\ pc = "gui"
    /\ debug_var = FALSE
    /\ debug_file \in DebugFileKinds
    /\ IF debug_file = "object" THEN \E v \in DebugValues : debug_mode = [debug_mode |-> v]
       ELSE debug_mode = [debug_mode |-> Absent]
    /\ debug_result = NoDebugResult
    /\ content_config = DefaultConfig
    /\ files = {}
    /\ disk = <<>>
    /\ unwritable = {}
    /\ first_name = <<>>
    /\ last_name = <<>>
    /\ cert = NoCert
    /\ BatchIdle
    /\ config_files = <<>>
    /\ loaded = <<>>
    /\ preview = [status |-> "none"]
    /\ NoTimers

\* _load_initial_configs or the "Reload from File" button
LoadDebugConfig ==
    /\ pc \in DebugTabPcs
    /\ debug_var' = load_debug_config(debug_file, debug_mode, debug_var).debug_var
    /\ pc' = IF load_debug_config(debug_file, debug_mode, debug_var).outcome = "AttributeError"
             THEN "debug_load_raised" ELSE "debug_loaded"
    /\ UNCHANGED <<content_config, files, disk, unwritable, first_name, last_name, cert,
                   debug_mode, debug_result>>
    /\ UNCHANGED <<batch_vars, config_files, loaded, preview, debug_file, timer_vars>>

\* the user clicks the "Enable test mode" checkbutton
ToggleTestMode ==
    /\ pc \in DebugTabPcs
    /\ debug_var' = ~debug_var
    /\ pc' = "debug_toggled"
    /\ UNCHANGED <<content_config, files, disk, unwritable, first_name, last_name, cert,
                   debug_mode, debug_result>>
    /\ UNCHANGED <<batch_vars, config_files, loaded, preview, debug_file, timer_vars>>

\* the "Save Changes" button: the file is replaced unless open() raises OSError
SaveDebugConfig ==
    /\ pc \in DebugTabPcs
    /\ \/ /\ debug_file' = "object"
          /\ debug_mode' = save_debug_config(debug_var)
          /\ pc' = "debug_saved"
       \/ /\ debug_file = "unreadable"
          /\ pc' = "debug_save_failed"
          /\ UNCHANGED <<debug_file, debug_mode>>
    /\ UNCHANGED <<content_config, files, disk, unwritable, first_name, last_name, cert,
                   debug_result>>
    /\ UNCHANGED <<batch_vars, config_files, loaded, preview, debug_var, timer_vars>>

DebugTabNext == LoadDebugConfig \/ ToggleTestMode \/ SaveDebugConfig

SpecDebugTab == DebugTabInit /\ [][DebugTabNext]_vars

\* C29: right after load_debug_config the window is in Full mode (debug_var
\* false) only if the file was read as a document whose debug_mode is one of
\* full/f/true; a missing, unreadable or malformed file and an unsupported
\* value leave it in Test mode.
C29_FullOnlyFromFile ==
    (pc \in {"debug_loaded", "debug_load_raised"} /\ ~debug_var) =>
        /\ debug_file = "object"
        /\ GuiNormalized(debug_mode) \in FullWords

----------------------------------------------------------------------------
(* config_gui.py: scheduling of the preview *)

\* how many timers root.after hands out in one run of the model
MaxTimers == 3

\* the "Refresh Preview" button is clicked only while update_preview has run
\* fewer times than this
MaxRefresh == 2

\* schedule_preview_update: root.after_cancel(preview_after_id) if it is set,
\* then preview_after_id = root.after(250, update_preview)
schedule_preview_update(after_id, pending, new_id) ==
    [preview_after_id |-> new_id,
     timers |-> (IF after_id /= 0 THEN pending \ {after_id} ELSE pending) \cup {new_id}]

\* the fields and the preview name of the window while timers come and go
TypedFields ==
    [DefaultConfig EXCEPT
        !.orientation = PyStr(<<"L">>), !.text_color = PyStr(<<>>),
        !.font_size = PyStr(<<"3", "2">>), !.text_y = PyStr(<<"1", "0", "7">>),
        !.long_name_threshold = PyStr(<<>>), !.long_name_font_size = PyStr(<<>>),
        !.long_name_text_y = PyStr(<<>>), !.split_name_threshold = PyStr(<<>>),
        !.split_name_line_gap = PyStr(<<>>), !.split_name_font_size = PyStr(<<>>),
        !.split_name_text_y = PyStr(<<>>)]

\* __init__ has set preview_after_id = None and not yet scheduled anything
DebounceInit ==
    /\ pc = "window"
    /\ content_config = TypedFields
    /\ files = {BackgroundPath, FontPath}
    /\ disk = <<>>
    /\ unwritable = {}
    /\ first_name \in GivenNames
    /\ last_name \in FamilyNames
    /\ cert = NoCert
    /\ debug_mode = [debug_mode |-> Absent]
    /\ debug_result = NoDebugResult
    /\ BatchIdle
    /\ config_files = <<>>
    /\ loaded = <<>>
    /\ preview = [status |-> "none"]
    /\ debug_file = "missing"
    /\ debug_var = FALSE
    /\ NoTimers

\* a field or the preview name is written, or __init__ / load_config ask for a preview
SchedulePreviewUpdate ==
    /\ pc = "window"
    /\ next_timer <= MaxTimers
    /\ preview_after_id' =
           schedule_preview_update(preview_after_id, timers, next_timer).preview_after_id
    /\ timers' = schedule_preview_update(preview_after_id, timers, next_timer).timers
    /\ next_timer' = next_timer + 1
    /\ UNCHANGED <<pc, content_config, files, disk, unwritable, first_name, last_name, cert,
                   debug_mode, debug_result>>
    /\ UNCHANGED <<batch_vars, config_files, loaded, preview, debug_file, debug_var,
                   preview_runs>>

\* update_preview as either caller runs it
RunUpdatePreview ==
    /\ preview_after_id' = 0
    /\ preview' = update_preview(content_config, first_name \o <<" ">> \o last_name)
    /\ preview_runs' = preview_runs + 1
    /\ UNCHANGED <<pc, content_config, files, disk, unwritable, first_name, last_name, cert,
                   debug_mode, debug_result>>
    /\ UNCHANGED <<batch_vars, config_files, loaded, debug_file, debug_var, next_timer>>

\* Tk fires the pending timer that is due first and calls update_preview
TimerFires ==
    /\ pc = "window"
    /\ timers /= {}
    /\ timers' = timers \ {CHOOSE t \in timers : \A u \in timers : t <= u}
    /\ RunUpdatePreview

\* the "Refresh Preview" button calls update_preview directly
RefreshPreview ==
    /\ pc = "window"
    /\ preview_runs < MaxRefresh
    /\ timers' = timers
    /\ RunUpdatePreview

DebounceNext == SchedulePreviewUpdate \/ TimerFires \/ RefreshPreview

SpecDebounce == DebounceInit /\ [][DebounceNext]_vars

====
